---------------------------- MODULE Spec2Model ----------------------------
(* Header-dependency resolver of src/src/analysis/header.rs.               *)
(*                                                                         *)
(* Strings are sequences of one-character strings, so that starts_with,    *)
(* find, rfind, replace, strip_prefix and the byte-wise order of str are    *)
(* computed as the code computes them.                                      *)
EXTENDS Integers, Sequences, FiniteSets, TLC

(***************************************************************************)
(* Bounds of the model.                                                    *)
(***************************************************************************)
\* lines of one compiler trace
MaxLines == 2
\* included-file lines over the traces of one library
MaxNodes == 3
\* calls of the public functions in one process
MaxCalls == 2
\* lines of a trace handed to the parser alone
MaxTrace == 4
\* dots before the space of such a line
MaxDepth == 3
\* threads that call the public functions at the same time
NumThreads == 2

\* the most calls made on the cache of one process
MaxCacheCalls == 4

(***************************************************************************)
(* Strings.                                                                *)
(***************************************************************************)
\* The characters that occur, in byte order.
Alphabet == <<" ", ".", "/", "^", "a", "b", "c", "d", "e", "f", "h", "i",
              "l", "n", "p", "r", "s", "t", "u", "v", "x">>

Byte(c) == CHOOSE i \in 1..Len(Alphabet) : Alphabet[i] = c

Range(s) == {s[i] : i \in 1..Len(s)}

IsWhite(c) == c = " "

\* s[from..] in 1-based positions
Drop(s, n) == SubSeq(s, n + 1, Len(s))

StartsWith(s, p) == Len(p) <= Len(s) /\ SubSeq(s, 1, Len(p)) = p

EndsWith(s, p) ==
    Len(p) <= Len(s) /\ SubSeq(s, Len(s) - Len(p) + 1, Len(s)) = p

\* 1-based positions at which pat occurs in s
Occurrences(s, p) ==
    {i \in 1..(Len(s) - Len(p) + 1) : SubSeq(s, i, i + Len(p) - 1) = p}

Contains(s, p) == Occurrences(s, p) # {}

Min(S) == CHOOSE x \in S : \A y \in S : x <= y

Max(S) == CHOOSE x \in S : \A y \in S : y <= x

\* str::find: 0-based offset of the first occurrence, -1 for None
Find(s, p) == IF Contains(s, p) THEN Min(Occurrences(s, p)) - 1 ELSE -1

\* str::rfind: 0-based offset of the last occurrence, -1 for None
RFind(s, p) == IF Contains(s, p) THEN Max(Occurrences(s, p)) - 1 ELSE -1

RECURSIVE TrimStart(_)
TrimStart(s) ==
    IF s # <<>> /\ IsWhite(Head(s)) THEN TrimStart(Tail(s)) ELSE s

RECURSIVE TrimEnd(_)
TrimEnd(s) ==
    IF s # <<>> /\ IsWhite(s[Len(s)])
    THEN TrimEnd(SubSeq(s, 1, Len(s) - 1))
    ELSE s

\* str::trim
Trim(s) == TrimEnd(TrimStart(s))

\* str::replace(p, ""): every non-overlapping occurrence, left to right
RECURSIVE Remove(_, _)
Remove(s, p) ==
    IF s = <<>> THEN <<>>
    ELSE IF StartsWith(s, p) THEN Remove(Drop(s, Len(p)), p)
    ELSE <<Head(s)>> \o Remove(Tail(s), p)

\* byte-wise order of str (Ord for str): a proper prefix is smaller
RECURSIVE StrLess(_, _)
StrLess(s, t) ==
    IF t = <<>> THEN FALSE
    ELSE IF s = <<>> THEN TRUE
    ELSE IF Head(s) = Head(t) THEN StrLess(Tail(s), Tail(t))
    ELSE Byte(Head(s)) < Byte(Head(t))

StrLeq(s, t) == s = t \/ StrLess(s, t)

\* the smallest string of a non-empty set
StrMin(S) == CHOOSE x \in S : \A y \in S : StrLeq(x, y)

\* the names in descending order
RECURSIVE SortNamesDescending(_)
SortNamesDescending(S) ==
    IF S = {} THEN <<>>
    ELSE LET m == CHOOSE x \in S : \A y \in S : StrLeq(y, x)
         IN  <<m>> \o SortNamesDescending(S \ {m})

\* slice::sort on &str
RECURSIVE SortNames(_)
SortNames(S) ==
    IF S = {} THEN <<>>
    ELSE LET m == StrMin(S) IN <<m>> \o SortNames(S \ {m})

\* All orders in which the elements of a set can be met.
RECURSIVE Perms(_)
Perms(S) ==
    IF S = {} THEN {<<>>}
    ELSE UNION {{<<x>> \o p : p \in Perms(S \ {x})} : x \in S}

(***************************************************************************)
(* TreeNode.                                                               *)
(***************************************************************************)
DotSlash == <<".", "/">>

\* TreeNode::new
TreeNodeNew(name) == [name |-> Remove(name, DotSlash), children |-> <<>>]

InvalidName == <<"i", "n", "v", "a", "l", "i", "d">>

\* TreeNode::new_invalid
TreeNodeInvalid == [name |-> InvalidName, children |-> <<>>]

\* no tree is taken for the sentinel
IsInvalidNever(tree) == FALSE

\* TreeNode::is_invalid
IsInvalid(tree) == tree.name = InvalidName

\* WorkList: the order in which a tree's nodes are popped when every popped
\* node pushes its children in order (a stack: the last child comes first).
RECURSIVE WorkListOrder(_)
WorkListOrder(stack) ==
    IF stack = <<>> THEN <<>>
    ELSE LET node == stack[Len(stack)]
             rest == SubSeq(stack, 1, Len(stack) - 1)
         IN  <<node>> \o WorkListOrder(rest \o node.children)

\* every node of a tree, the root first
NodesOf(tree) == WorkListOrder(<<tree>>)

\* the names of a tree's nodes
NamesOf(tree) == {n.name : n \in Range(NodesOf(tree))}

\* The name get_clean_root gives one node; Panic when strip_prefix('/')
\* finds no separator after the header root (unwrap of None).
Panic == <<"^">>

CleanName(name, include_path) ==
    IF StartsWith(name, include_path)
    THEN LET rest == Drop(name, Len(include_path))
         IN  IF StartsWith(rest, <<"/">>) THEN Tail(rest) ELSE Panic
    ELSE name

\* TreeNode::get_clean_root, as the rewrite of every node name
RECURSIVE CleanTree(_, _)
CleanTree(tree, include_path) ==
    [name |-> CleanName(tree.name, include_path),
     children |-> [i \in 1..Len(tree.children) |->
                      CleanTree(tree.children[i], include_path)]]

CleanPanics(tree, include_path) ==
    \E n \in Range(NodesOf(tree)) :
        /\ StartsWith(n.name, include_path)
        /\ ~StartsWith(Drop(n.name, Len(include_path)), <<"/">>)

(***************************************************************************)
(* Trace parser.                                                           *)
(***************************************************************************)
\* the last group is not pushed when the pairs run out
RECURSIVE LayerGroupsWithoutLast(_, _, _, _)
LayerGroupsWithoutLast(layered_nodes, depth, seq_each_layer, layer_seqs) ==
    IF layered_nodes = <<>>
    THEN SelectSeq(seq_each_layer, LAMBDA x : x # <<>>)
    ELSE LET p == Head(layered_nodes)
         IN  IF p[1] = depth
             THEN LayerGroupsWithoutLast(Tail(layered_nodes), depth,
                                         Append(seq_each_layer, layer_seqs),
                                         <<p>>)
             ELSE LayerGroupsWithoutLast(Tail(layered_nodes), depth,
                                         seq_each_layer, Append(layer_seqs, p))

\* the groups get_layer_child cuts its input into: a new group starts at
\* every pair whose layer equals depth; empty groups are dropped
RECURSIVE LayerGroups(_, _, _, _)
LayerGroups(layered_nodes, depth, seq_each_layer, layer_seqs) ==
    IF layered_nodes = <<>>
    THEN SelectSeq(Append(seq_each_layer, layer_seqs), LAMBDA x : x # <<>>)
    ELSE LET p == Head(layered_nodes)
         IN  IF p[1] = depth
             THEN LayerGroups(Tail(layered_nodes), depth,
                              Append(seq_each_layer, layer_seqs), <<p>>)
             ELSE LayerGroups(Tail(layered_nodes), depth,
                              seq_each_layer, Append(layer_seqs, p))

\* the children of a group are split at the depth of the group itself
RECURSIVE get_layer_child_same_depth(_, _)
get_layer_child_same_depth(layered_nodes, depth) ==
    LET groups == LayerGroups(layered_nodes, depth, <<>>, <<>>)
    IN  [i \in 1..Len(groups) |->
            [name |-> TreeNodeNew(groups[i][1][2]).name,
             children |-> IF Len(groups[i]) = 1 THEN <<>>
                          ELSE get_layer_child_same_depth(Tail(groups[i]), depth)]]

\* get_layer_child
RECURSIVE get_layer_child(_, _)
get_layer_child(layered_nodes, depth) ==
    LET groups == LayerGroups(layered_nodes, depth, <<>>, <<>>)
    IN  [i \in 1..Len(groups) |->
            [name |-> TreeNodeNew(groups[i][1][2]).name,
             children |-> get_layer_child(Tail(groups[i]), depth + 1)]]

ExtH == <<".", "h">>
ExtHpp == <<".", "h", "p", "p">>
ExtHxx == <<".", "h", "x", "x">>
UsrLib == <<"/", "u", "s", "r", "/", "l", "i", "b", "/">>

\* the (layer, header) pair of one trace line that has a space
LinePair(line) ==
    LET sep == Find(line, <<" ">>) IN <<sep, Trim(Drop(line, sep))>>

\* a line is retained whatever its extension
KeepsLineAnyExtension(line) == ~Contains(LinePair(line)[2], UsrLib)

\* lines 141-146: the line is retained
KeepsLine(line) ==
    LET header == LinePair(line)[2]
    IN  /\ ~Contains(header, UsrLib)
        /\ \/ EndsWith(header, ExtH)
           \/ EndsWith(header, ExtHpp)
           \/ EndsWith(header, ExtHxx)

\* parse_dependency_tree: Err when a line has no space, else the tree
parse_dependency_tree(output, base_name) ==
    IF \E i \in 1..Len(output) : Find(output[i], <<" ">>) = -1
    THEN [ok |-> FALSE]
    ELSE LET kept == SelectSeq(output, KeepsLine)
             node_layer == [i \in 1..Len(kept) |-> LinePair(kept[i])]
         IN  [ok |-> TRUE,
              tree |-> [name |-> TreeNodeNew(base_name).name,
                        children |-> get_layer_child(node_layer, 1)]]


(***************************************************************************)
(* The library on disk and what the compiler may print for a header.       *)
(***************************************************************************)
\* Deopt::get_library_build_header_path
HeaderRoot == <<"/", "p", "/", "i", "n", "c">>

\* read_all_files_in_dir(header_dir): three headers and one other file
Files == <<HeaderRoot \o <<"/", "a", ".", "h">>,
           HeaderRoot \o <<"/", "b", ".", "h">>,
           HeaderRoot \o <<"/", "d", ".", "c">>,
           HeaderRoot \o <<"/", "c", ".", "h">>>>

Stddef == <<"/", "u", "s", "r", "/", "i", "n", "c", "l", "u", "d", "e", "/",
            "s", "t", "d", "d", "e", "f", ".", "h">>

\* The paths a trace line names: a header found through -I. ("./x.h"), a
\* header found beside its includer (absolute, under the header root) and
\* a system header.
RawPaths == {<<".", "/", "a", ".", "h">>,
             <<".", "/", "b", ".", "h">>,
             HeaderRoot \o <<"/", "c", ".", "h">>,
             Stddef}

\* a line of diagnostics without any space (a caret under column one)
BadLine == <<"^">>

Dots(d) == [i \in 1..d |-> "."]

\* "<depth dots> <path>"
Line(d, raw) == Dots(d) \o <<" ">> \o raw

\* depths of n successive lines of clang -H: the first is 1, each next one
\* is at most one deeper than the line before
DepthSeqs(n) ==
    {s \in [1..n -> 1..n] :
        /\ n > 0 => s[1] = 1
        /\ \A i \in 2..n : s[i] <= s[i - 1] + 1}

Traces ==
    UNION {{[i \in 1..n |-> Line(ds[i], ps[i])] :
               ds \in DepthSeqs(n), ps \in [1..n -> RawPaths]} :
           n \in 0..MaxLines}

\* a trace cut short by a line without a space
BadTraces == {Append(t, BadLine) : t \in {u \in Traces : Len(u) < MaxLines}}

\* exit status and stderr of one compiler run
Outcomes ==
    {[success |-> FALSE, stderr |-> <<>>]} \cup
    {[success |-> TRUE, stderr |-> t] : t \in Traces \cup BadTraces}

\* Path::extension: what follows the last dot of the file name, if any
Extension(path) ==
    LET slash == RFind(path, <<"/">>)
        file == Drop(path, slash + 1)
        dot == RFind(file, <<".">>)
    IN  IF dot <= 0 THEN <<>> ELSE Drop(file, dot + 1)

IsHeaderFile(path) ==
    Extension(path) \in {<<"h">>, <<"h", "p", "p">>, <<"h", "x", "x">>}

\* the name a header of the directory gets as the root of its tree
RootName(header) ==
    TreeNodeNew(<<".">> \o Drop(header, Len(HeaderRoot))).name

\* Executor::extract_header_dependency on the compiler's outcome
extract_header_dependency(header, out) ==
    IF ~out.success THEN [kind |-> "ok", tree |-> TreeNodeInvalid]
    ELSE LET base_name == <<".">> \o Drop(header, Len(HeaderRoot))
             parsed == parse_dependency_tree(out.stderr, base_name)
         IN  IF ~parsed.ok THEN [kind |-> "err", tree |-> TreeNodeInvalid]
             ELSE IF CleanPanics(parsed.tree, HeaderRoot)
             THEN [kind |-> "panic", tree |-> TreeNodeInvalid]
             ELSE [kind |-> "ok", tree |-> CleanTree(parsed.tree, HeaderRoot)]

(***************************************************************************)
(* Inclusion graph.                                                        *)
(***************************************************************************)
\* only the roots of the trees are collected
AllHeadersRootsOnly(trees) == {trees[i].name : i \in 1..Len(trees)}

\* collect_all_headers over the forest
AllHeaders(trees) == UNION {NamesOf(trees[i]) : i \in 1..Len(trees)}

\* the names of the children met by build_dependency_graph: every node of
\* the tree but its root
ChildNames(tree) == {n.name : n \in Range(Tail(NodesOf(tree)))}

\* the parent, not the root, is inserted under every child name
build_dependency_graph_parent(tree, root_name, dependency_graph) ==
    [h \in DOMAIN dependency_graph |->
        dependency_graph[h] \cup
            {n.name : n \in {m \in Range(NodesOf(tree)) :
                                \E c \in Range(m.children) : c.name = h}}]

\* build_dependency_graph: the root is inserted under every child name
build_dependency_graph(tree, root_name, dependency_graph) ==
    [h \in DOMAIN dependency_graph |->
        IF h \in ChildNames(tree)
        THEN dependency_graph[h] \cup {root_name}
        ELSE dependency_graph[h]]

RECURSIVE BuildAll(_, _)
BuildAll(trees, dependency_graph) ==
    IF trees = <<>> THEN dependency_graph
    ELSE BuildAll(Tail(trees),
                  build_dependency_graph(Head(trees), Head(trees).name,
                                         dependency_graph))

\* the graph get_independent_headers hands to the root resolver
DependencyGraph(trees) ==
    BuildAll(trees, [h \in AllHeaders(trees) |-> {}])

\* a header held by its own edge set is not counted
InDegreeWithoutSelf(dependency_graph, headers) ==
    [h \in headers \cup UNION {dependency_graph[x] : x \in DOMAIN dependency_graph}
        |-> Cardinality({x \in DOMAIN dependency_graph :
                            x # h /\ h \in dependency_graph[x]})]

\* only the edge sets of the collected headers are counted
InDegreeFromHeaders(dependency_graph, headers) ==
    [h \in headers \cup UNION {dependency_graph[x] : x \in DOMAIN dependency_graph}
        |-> Cardinality({x \in DOMAIN dependency_graph \cap headers :
                            h \in dependency_graph[x]})]

\* step 1 of find_top_level_headers_with_cycles: in_degree[d] counts the
\* edge sets that hold d
InDegree(dependency_graph, headers) ==
    [h \in headers \cup UNION {dependency_graph[x] : x \in DOMAIN dependency_graph}
        |-> Cardinality({x \in DOMAIN dependency_graph : h \in dependency_graph[x]})]

\* find_cycle_nodes: temp_visited after the walk from start
RECURSIVE find_cycle_nodes(_, _, _)
RECURSIVE WalkAll(_, _, _)
find_cycle_nodes(start, dependency_graph, temp_visited) ==
    IF start \in temp_visited THEN temp_visited
    ELSE IF start \in DOMAIN dependency_graph
    THEN WalkAll(dependency_graph[start], dependency_graph,
                 temp_visited \cup {start})
    ELSE temp_visited \cup {start}

WalkAll(dependents, dependency_graph, temp_visited) ==
    IF dependents = {} THEN temp_visited
    ELSE LET d == CHOOSE x \in dependents : TRUE
         IN  WalkAll(dependents \ {d}, dependency_graph,
                     find_cycle_nodes(d, dependency_graph, temp_visited))

(***************************************************************************)
(* System headers.                                                         *)
(***************************************************************************)
\* is_a_lib_header
is_a_lib_header(name) == ~StartsWith(name, <<"/">>)

\* the system children of any node, project header or not
SysChildrenOfAnyNode(node) ==
    LET names == [i \in 1..Len(node.children) |-> node.children[i].name]
    IN  SelectSeq(names, LAMBDA c : ~is_a_lib_header(c))

\* the system children of one node, in order
SysChildren(node) ==
    IF is_a_lib_header(node.name)
    THEN LET names == [i \in 1..Len(node.children) |-> node.children[i].name]
         IN  SelectSeq(names, LAMBDA c : ~is_a_lib_header(c))
    ELSE <<>>

RECURSIVE Flatten(_)
Flatten(ss) == IF ss = <<>> THEN <<>> ELSE Head(ss) \o Flatten(Tail(ss))

\* get_included_sys_header
get_included_sys_header(tree) ==
    LET nodes == NodesOf(tree)
    IN  Flatten([i \in 1..Len(nodes) |-> SysChildren(nodes[i])])

IncludeSeg == <<"/", "i", "n", "c", "l", "u", "d", "e", "/">>

\* the entry is pushed without looking for it in the list
PushSysHeaderUnchecked(sys_headers, header) ==
    LET idx == RFind(header, IncludeSeg)
    IN  IF idx = -1 THEN sys_headers
        ELSE Append(sys_headers, Drop(header, idx + Len(IncludeSeg)))

\* the entry one recorded header adds to sys_headers
PushSysHeader(sys_headers, header) ==
    LET idx == RFind(header, IncludeSeg)
    IN  IF idx = -1 THEN sys_headers
        ELSE LET h == Drop(header, idx + Len(IncludeSeg))
             IN  IF h \in Range(sys_headers) THEN sys_headers
                 ELSE Append(sys_headers, h)

RECURSIVE PushAll(_, _)
PushAll(sys_headers, headers) ==
    IF headers = <<>> THEN sys_headers
    ELSE PushAll(PushSysHeader(sys_headers, Head(headers)), Tail(headers))

\* the trees are not filtered by the names of header_strs
RECURSIVE SysHeadersOfAllTrees(_, _, _)
SysHeadersOfAllTrees(header_trees, header_strs, sys_headers) ==
    IF header_trees = <<>> THEN sys_headers
    ELSE SysHeadersOfAllTrees(Tail(header_trees), header_strs,
                              PushAll(sys_headers,
                                      get_included_sys_header(Head(header_trees))))

\* the initializer of SYS_HEADERS in get_include_sys_headers
RECURSIVE SysHeaders(_, _, _)
SysHeaders(header_trees, header_strs, sys_headers) ==
    IF header_trees = <<>> THEN sys_headers
    ELSE LET tree == Head(header_trees)
         IN  SysHeaders(Tail(header_trees), header_strs,
                        IF tree.name \in Range(header_strs)
                        THEN PushAll(sys_headers, get_included_sys_header(tree))
                        ELSE sys_headers)


(***************************************************************************)
(* State.                                                                  *)
(***************************************************************************)
VARIABLES
    pc,                     \* where the process is
    call,                   \* the public function being served
    calls,                  \* public calls made so far
    TREES,                  \* the OnceCell of get_library_dep_trees
    SYS_HEADERS,            \* the OnceCell of get_include_sys_headers
    idx,                    \* position of the tracing loop in Files
    header_trees,           \* the initializer's header_trees
    all_headers,            \* get_independent_headers' all_headers
    dependency_graph,       \* get_independent_headers' dependency_graph
    in_degree,              \* find_top_level_headers_with_cycles' locals
    queue,
    result,
    visited,
    scan,                   \* headers the cycle scan has yet to meet
    cycle_nodes,            \* the sorted candidate set of the last walk
    cycle_representatives,
    lib_returns,            \* what get_include_lib_headers returned, in order
    sys_returns,            \* what get_include_sys_headers returned, in order
    failed,                 \* root names of the headers whose compile failed
    panic,                  \* why the process panicked, if it did
    trace_in,               \* the compiler output handed to the parser alone
    parsed,                 \* what parse_dependency_tree made of trace_in
    t_pc,                   \* where each of the concurrent threads is
    t_call,                 \* the public function each thread called
    t_idx,                  \* each thread's position in Files when it traces
    t_trees,                \* each thread's header_trees when it traces
    t_forest,               \* the forest each thread got from TREES
    t_sys,                  \* the list each thread got from SYS_HEADERS
    trees_cell,             \* TREES as the threads share it
    sys_cell,               \* SYS_HEADERS as the threads share it
    tracing_runs,           \* times the initializer of TREES was started
    sys_roots,              \* the header_strs the initializer of SYS_HEADERS got
    c_trees,                \* TREES over calls that name different libraries
    c_sys,                  \* SYS_HEADERS over such calls
    c_log,                  \* the calls made: function, library, value returned
    chat_pc,                \* where get_chat_response is
    retry,                  \* its loop variable _retry
    sent,                   \* requests it has sent
    chat_log,               \* the responses it has received
    chat_ret                \* what it returned

\* the state of the process that serves the public calls one at a time
process == <<pc, call, calls, TREES, SYS_HEADERS, idx, header_trees,
             all_headers, dependency_graph, in_degree, queue, result, visited,
             scan, cycle_nodes, cycle_representatives, lib_returns,
             sys_returns, failed, panic>>

\* the state of the parser run on its own
parser == <<trace_in, parsed>>

\* the state of the threads that call concurrently
threads == <<t_pc, t_call, t_idx, t_trees, t_forest, t_sys, trees_cell,
             sys_cell, tracing_runs, sys_roots>>

\* the state of the cache over calls for several libraries
cache == <<c_trees, c_sys, c_log>>

\* the state of one call of get_chat_response
chat == <<chat_pc, retry, sent, chat_log, chat_ret>>

vars == <<process, parser, threads, cache, chat>>

\* what the steps of each part leave alone
NotProcess == <<parser, threads, cache, chat>>
NotParser == <<process, threads, cache, chat>>
NotThreads == <<process, parser, cache, chat>>
NotCache == <<process, parser, threads, chat>>
NotChat == <<process, parser, threads, cache>>

cells == <<TREES, SYS_HEADERS>>

tracing == <<idx, header_trees, failed>>

resolver == <<all_headers, dependency_graph, in_degree, queue, result,
              visited, scan, cycle_nodes, cycle_representatives>>

returns == <<lib_returns, sys_returns>>

Unset == [set |-> FALSE, val |-> <<>>]

\* the locals of the root resolver before it runs and after it returned
ResolverIdle ==
    /\ all_headers = {}
    /\ dependency_graph = <<>>
    /\ in_degree = <<>>
    /\ queue = <<>>
    /\ result = <<>>
    /\ visited = {}
    /\ scan = {}
    /\ cycle_nodes = <<>>
    /\ cycle_representatives = <<>>

\* no trace was handed to the parser
ParserIdle ==
    /\ trace_in = <<>>
    /\ parsed = [done |-> FALSE]

Threads == 1..NumThreads

\* a OnceCell nobody has initialized
Incomplete == [state |-> "incomplete", val |-> <<>>]

NotSeen == [seen |-> FALSE, val |-> <<>>]

\* no thread has called yet
ThreadsIdle ==
    /\ t_pc = [t \in Threads |-> "idle"]
    /\ t_call = [t \in Threads |-> "none"]
    /\ t_idx = [t \in Threads |-> 1]
    /\ t_trees = [t \in Threads |-> <<>>]
    /\ t_forest = [t \in Threads |-> NotSeen]
    /\ t_sys = [t \in Threads |-> NotSeen]
    /\ trees_cell = Incomplete
    /\ sys_cell = Incomplete
    /\ tracing_runs = 0
    /\ sys_roots = <<>>

\* no call was made on the cache
CacheIdle ==
    /\ c_trees = Incomplete
    /\ c_sys = Incomplete
    /\ c_log = <<>>

\* get_chat_response was not called
ChatIdle ==
    /\ chat_pc = "idle"
    /\ retry = 0
    /\ sent = 0
    /\ chat_log = <<>>
    /\ chat_ret = [kind |-> "none"]

ProcessInit ==
    /\ pc = "idle"
    /\ call = "none"
    /\ calls = 0
    /\ TREES = Unset
    /\ SYS_HEADERS = Unset
    /\ idx = 1
    /\ header_trees = <<>>
    /\ ResolverIdle
    /\ lib_returns = <<>>
    /\ sys_returns = <<>>
    /\ failed = {}
    /\ panic = "none"

Init == ProcessInit /\ ParserIdle /\ ThreadsIdle /\ CacheIdle /\ ChatIdle

\* included-file nodes of a forest
NodeCount(trees) ==
    LET RECURSIVE Sum(_)
        Sum(ts) == IF ts = <<>> THEN 0
                   ELSE Len(NodesOf(Head(ts))) - 1 + Sum(Tail(ts))
    IN  Sum(trees)

(***************************************************************************)
(* The public functions are entered.                                       *)
(***************************************************************************)
\* get_include_lib_headers, line 356: get_library_dep_trees(deopt)
CallLib ==
    /\ pc = "idle"
    /\ calls < MaxCalls
    /\ calls' = calls + 1
    /\ call' = "lib"
    /\ pc' = IF TREES.set THEN "build" ELSE "trace"
    /\ UNCHANGED <<cells, tracing, resolver, returns, panic>>
    /\ UNCHANGED NotProcess

\* get_include_sys_headers with SYS_HEADERS empty: the initializer starts
CallSys ==
    /\ pc = "idle"
    /\ calls < MaxCalls
    /\ ~SYS_HEADERS.set
    /\ calls' = calls + 1
    /\ call' = "sys"
    /\ pc' = IF TREES.set THEN "build" ELSE "trace"
    /\ UNCHANGED <<cells, tracing, resolver, returns, panic>>
    /\ UNCHANGED NotProcess

\* get_include_sys_headers with SYS_HEADERS filled: the cached list
CallSysCached ==
    /\ pc = "idle"
    /\ calls < MaxCalls
    /\ SYS_HEADERS.set
    /\ calls' = calls + 1
    /\ sys_returns' = Append(sys_returns, SYS_HEADERS.val)
    /\ UNCHANGED <<pc, call, cells, tracing, resolver, lib_returns, panic>>
    /\ UNCHANGED NotProcess

(***************************************************************************)
(* get_library_dep_trees: the initializer of TREES.                        *)
(***************************************************************************)
\* lines 337-344: a file without a header extension is passed over
SkipFile ==
    /\ pc = "trace"
    /\ idx <= Len(Files)
    /\ ~IsHeaderFile(Files[idx])
    /\ idx' = idx + 1
    /\ UNCHANGED <<pc, call, calls, cells, header_trees, failed, resolver,
                   returns, panic>>
    /\ UNCHANGED NotProcess

\* lines 345-349: one header is traced; unwrap panics on Err
TraceHeader ==
    /\ pc = "trace"
    /\ idx <= Len(Files)
    /\ IsHeaderFile(Files[idx])
    /\ \E out \in Outcomes :
          LET r == extract_header_dependency(Files[idx], out)
          IN  /\ NodeCount(header_trees) + Len(out.stderr) <= MaxNodes
              /\ IF r.kind = "ok"
                 THEN /\ header_trees' = IF IsInvalid(r.tree) THEN header_trees
                                         ELSE Append(header_trees, r.tree)
                      /\ failed' = IF out.success THEN failed
                                   ELSE failed \cup {RootName(Files[idx])}
                      /\ idx' = idx + 1
                      /\ UNCHANGED <<pc, panic>>
                 ELSE /\ pc' = "panicked"
                      /\ panic' = IF r.kind = "err" THEN "unwrap: no space in line"
                                  ELSE "unwrap: strip_prefix"
                      /\ header_trees' = <<>>
                      /\ idx' = 1
                      /\ failed' = {}
    /\ UNCHANGED <<call, calls, cells, resolver, returns>>
    /\ UNCHANGED NotProcess

\* lines 351-352: the forest is stored in TREES
FinishTrace ==
    /\ pc = "trace"
    /\ idx > Len(Files)
    /\ TREES' = [set |-> TRUE, val |-> header_trees]
    /\ header_trees' = <<>>
    /\ pc' = "build"
    /\ UNCHANGED <<call, calls, SYS_HEADERS, idx, failed, resolver, returns,
                   panic>>
    /\ UNCHANGED NotProcess

(***************************************************************************)
(* get_independent_headers and find_top_level_headers_with_cycles.         *)
(***************************************************************************)
\* lines 155-177 and 214-224: the graph and the in-degrees
BuildGraph ==
    /\ pc = "build"
    /\ all_headers' = AllHeaders(TREES.val)
    /\ dependency_graph' = DependencyGraph(TREES.val)
    /\ in_degree' = InDegree(DependencyGraph(TREES.val), AllHeaders(TREES.val))
    /\ pc' = "seed"
    /\ UNCHANGED <<call, calls, cells, tracing, queue, result, visited, scan,
                   cycle_nodes, cycle_representatives, returns, panic>>
    /\ UNCHANGED NotProcess

\* seeding on the wrong count
ZeroDegreeOffByOne(degrees) == {h \in DOMAIN degrees : degrees[h] = 1}

\* the headers the seeding loop pushes
ZeroDegree(degrees) == {h \in DOMAIN degrees : degrees[h] = 0}

\* where the resolver goes with this queue
AfterQueue(q) == IF q = <<>> THEN "scan" ELSE "kahn"

\* lines 227-236: the queue is seeded in the map's iteration order
Seed ==
    /\ pc = "seed"
    /\ \E order \in Perms(ZeroDegree(in_degree)) :
          /\ queue' = order
          /\ pc' = AfterQueue(order)
    /\ scan' = all_headers
    /\ UNCHANGED <<call, calls, cells, tracing, all_headers, dependency_graph,
                   in_degree, result, visited, cycle_nodes,
                   cycle_representatives, returns, panic>>
    /\ UNCHANGED NotProcess

\* the front of the queue is read and left in place
FrontLeft(q) == q

\* line 239: the queue after pop_front
PopFront(q) == Tail(q)

\* one decrement brings any count to zero
DecrementToZero(degree) == 0

\* *degree -= 1 on usize
Decrement(degree) == IF degree > 0 THEN degree - 1 ELSE 2147483647

\* the in-degrees after the dependents of one header were decremented
Decremented(degrees, dependents) ==
    [h \in DOMAIN degrees |->
        IF h \in dependents THEN Decrement(degrees[h]) ELSE degrees[h]]

\* lines 239-257: one round of the Kahn loop
KahnStep ==
    /\ pc = "kahn"
    /\ queue # <<>>
    /\ LET header == Head(queue)
       IN  IF header \in visited
           THEN /\ queue' = PopFront(queue)
                /\ pc' = AfterQueue(PopFront(queue))
                /\ UNCHANGED <<in_degree, result, visited, panic>>
           ELSE LET dependents == IF header \in DOMAIN dependency_graph
                                  THEN dependency_graph[header] \cap DOMAIN in_degree
                                  ELSE {}
                    degrees == Decremented(in_degree, dependents)
                    ready == {d \in dependents :
                                 degrees[d] = 0 /\ d \notin visited \cup {header}}
                IN  \E mode \in IF \E d \in dependents : in_degree[d] = 0
                                THEN {"overflow panic", "wrap"} ELSE {"ok"} :
                    \E order \in Perms(ready) :
                       IF mode = "overflow panic"
                       THEN /\ pc' = "panicked"
                            /\ panic' = "subtract with overflow"
                            /\ UNCHANGED <<in_degree, queue, result, visited>>
                       ELSE /\ visited' = visited \cup {header}
                            /\ result' = Append(result, header)
                            /\ in_degree' = degrees
                            /\ queue' = PopFront(queue) \o order
                            /\ pc' = AfterQueue(PopFront(queue) \o order)
                            /\ UNCHANGED panic
    /\ UNCHANGED <<call, calls, cells, tracing, all_headers, dependency_graph,
                   scan, cycle_nodes, cycle_representatives, returns>>
    /\ UNCHANGED NotProcess

\* the scan leaves the visited set as it found it
MarkedNothing(seen, nodes) == seen

\* lines 274-276: every node of the walk is marked visited
Marked(seen, nodes) == seen \cup Range(nodes)

\* lines 261-280: the cycle scan meets an unvisited header (a visited one
\* is passed over without effect)
ScanStep ==
    /\ pc = "scan"
    /\ \E header \in scan \ visited :
          LET nodes == SortNames(find_cycle_nodes(header, dependency_graph, {}))
              representative == nodes[1]
          IN  /\ cycle_nodes' = nodes
              /\ scan' = scan \ {header}
              /\ IF representative \notin visited
                 THEN /\ cycle_representatives' =
                            Append(cycle_representatives, representative)
                      /\ visited' = Marked(visited, nodes)
                 ELSE UNCHANGED <<cycle_representatives, visited>>
    /\ UNCHANGED <<pc, call, calls, cells, tracing, all_headers,
                   dependency_graph, in_degree, queue, result, returns, panic>>
    /\ UNCHANGED NotProcess

\* the resolver's locals are dropped
ResolverDropped ==
    /\ all_headers' = {}
    /\ dependency_graph' = <<>>
    /\ in_degree' = <<>>
    /\ queue' = <<>>
    /\ result' = <<>>
    /\ visited' = {}
    /\ scan' = {}
    /\ cycle_nodes' = <<>>
    /\ cycle_representatives' = <<>>

\* lines 283-284 and 357-361: get_include_lib_headers returns
ReturnLib ==
    /\ pc = "scan"
    /\ scan \ visited = {}
    /\ call = "lib"
    /\ lib_returns' = Append(lib_returns, result \o cycle_representatives)
    /\ ResolverDropped
    /\ pc' = "idle"
    /\ call' = "none"
    /\ UNCHANGED <<calls, cells, tracing, sys_returns, panic>>
    /\ UNCHANGED NotProcess

\* lines 283-284 and 368-390: SYS_HEADERS is filled and returned
ReturnSys ==
    /\ pc = "scan"
    /\ scan \ visited = {}
    /\ call = "sys"
    /\ LET header_strs == result \o cycle_representatives
           sys_headers == SysHeaders(TREES.val, header_strs, <<>>)
       IN  /\ SYS_HEADERS' = [set |-> TRUE, val |-> sys_headers]
           /\ sys_returns' = Append(sys_returns, sys_headers)
    /\ ResolverDropped
    /\ pc' = "idle"
    /\ call' = "none"
    /\ UNCHANGED <<calls, TREES, tracing, lib_returns, panic>>
    /\ UNCHANGED NotProcess

Next ==
    \/ CallLib
    \/ CallSys
    \/ CallSysCached
    \/ SkipFile
    \/ TraceHeader
    \/ FinishTrace
    \/ BuildGraph
    \/ Seed
    \/ KahnStep
    \/ ScanStep
    \/ ReturnLib
    \/ ReturnSys

Spec == Init /\ [][Next]_vars

\* the calling thread runs the next round of the Kahn loop whenever the
\* queue holds a header
LiveSpec == Spec /\ WF_vars(KahnStep)


(***************************************************************************)
(* parse_dependency_tree run on its own, on any bounded compiler output.   *)
(***************************************************************************)
\* what the lines handed to the parser name: headers of the three
\* extensions (one found through -I., one whose path begins with the header
\* root without lying under it, one under the header root), a source file
\* and a header under /usr/lib/
ParsePaths == {<<".", "/", "a", ".", "h">>,
               HeaderRoot \o <<"b", ".", "h", "p", "p">>,
               HeaderRoot \o <<"/", "c", ".", "h", "x", "x">>,
               <<"d", ".", "c">>,
               UsrLib \o <<"e", ".", "h">>}

\* lines of any depth from 0 on, and the line without a space
ParseLines == {Line(d, raw) : d \in 0..MaxDepth, raw \in ParsePaths}
                  \cup {BadLine}

ParseTraces == UNION {[1..n -> ParseLines] : n \in 0..MaxTrace}

\* the base name extract_header_dependency passes for /p/inc/r.h
ParseBase == <<".", "/", "r", ".", "h">>

InitParse ==
    /\ ProcessInit
    /\ trace_in \in ParseTraces
    /\ parsed = [done |-> FALSE]
    /\ ThreadsIdle
    /\ CacheIdle
    /\ ChatIdle

\* line 91: tree.get_clean_root on what the parser returned
CleanRoot(res) ==
    IF ~res.ok THEN [kind |-> "err"]
    ELSE IF CleanPanics(res.tree, HeaderRoot) THEN [kind |-> "panic"]
    ELSE [kind |-> "ok", tree |-> CleanTree(res.tree, HeaderRoot)]

\* lines 90-91: parse_dependency_tree(&stderr, &base_name), then
\* get_clean_root
ParseTrace ==
    /\ ~parsed.done
    /\ parsed' = [done |-> TRUE,
                  res |-> parse_dependency_tree(trace_in, ParseBase),
                  clean |-> CleanRoot(parse_dependency_tree(trace_in, ParseBase))]
    /\ UNCHANGED <<trace_in, NotParser>>

NextParse == ParseTrace

SpecParse == InitParse /\ [][NextParse]_vars


(***************************************************************************)
(* The public functions called by several threads at once.  A thread that  *)
(* finds a cell running has no step: it waits in get_or_init.              *)
(***************************************************************************)
\* find_top_level_headers_with_cycles, lines 239-257: what the Kahn loop can
\* leave behind, over the orders in which the ready dependents are pushed
RECURSIVE KahnRuns(_, _, _, _, _)
KahnRuns(graph, degrees, q, emitted, seen) ==
    IF q = <<>> THEN {[result |-> emitted, visited |-> seen]}
    ELSE LET header == Head(q)
         IN  IF header \in seen
             THEN KahnRuns(graph, degrees, PopFront(q), emitted, seen)
             ELSE LET dependents == IF header \in DOMAIN graph
                                    THEN graph[header] \cap DOMAIN degrees
                                    ELSE {}
                      after == Decremented(degrees, dependents)
                      ready == {d \in dependents :
                                   after[d] = 0 /\ d \notin seen \cup {header}}
                  IN  UNION {KahnRuns(graph, after, PopFront(q) \o order,
                                      Append(emitted, header),
                                      seen \cup {header}) :
                             order \in Perms(ready)}

\* lines 261-280: the representatives the cycle scan can push, over the
\* orders in which it meets the headers
RECURSIVE ScanRuns(_, _, _, _)
ScanRuns(graph, todo, seen, reps) ==
    IF todo \ seen = {} THEN {reps}
    ELSE UNION {LET nodes == SortNames(find_cycle_nodes(header, graph, {}))
                    representative == nodes[1]
                IN  IF representative \notin seen
                    THEN ScanRuns(graph, todo \ {header},
                                  Marked(seen, nodes),
                                  Append(reps, representative))
                    ELSE ScanRuns(graph, todo \ {header}, seen, reps) :
                header \in todo \ seen}

\* get_independent_headers: the sequences it can return for a forest
Resolutions(trees) ==
    LET graph == DependencyGraph(trees)
        degrees == InDegree(graph, AllHeaders(trees))
    IN  UNION {UNION {{k.result \o reps :
                          reps \in ScanRuns(graph, AllHeaders(trees),
                                            k.visited, <<>>)} :
                      k \in KahnRuns(graph, degrees, order, <<>>, {})} :
               order \in Perms(ZeroDegree(degrees))}

\* a second system header, and one whose path holds no "/include/"
Stdint == <<"/", "u", "s", "r", "/", "i", "n", "c", "l", "u", "d", "e", "/",
            "s", "t", "d", "i", "n", "t", ".", "h">>

FrameworkHeader == <<"/", "f", "w", "/", "x", ".", "h">>

\* what the compiler prints for a header while the threads run
ThreadOutcomes ==
    {[success |-> FALSE, stderr |-> <<>>],
     [success |-> TRUE, stderr |-> <<>>],
     [success |-> TRUE, stderr |-> <<Line(1, <<".", "/", "a", ".", "h">>)>>],
     [success |-> TRUE, stderr |-> <<Line(1, Stddef)>>],
     [success |-> TRUE, stderr |-> <<Line(1, Stdint)>>],
     [success |-> TRUE, stderr |-> <<Line(1, FrameworkHeader)>>],
     [success |-> TRUE, stderr |-> <<BadLine>>]}

At(f, t, v) == [f EXCEPT ![t] = v]

\* a thread calls get_include_lib_headers or get_include_sys_headers
ThreadCall(t) ==
    /\ t_pc[t] = "idle"
    /\ \E c \in {"lib", "sys"} :
          /\ t_call' = At(t_call, t, c)
          /\ t_pc' = At(t_pc, t, IF c = "sys" THEN "sys_cell" ELSE "trees_cell")
    /\ UNCHANGED <<t_idx, t_trees, t_forest, t_sys, trees_cell, sys_cell,
                   tracing_runs>>
    /\ UNCHANGED NotThreads
    /\ UNCHANGED sys_roots

\* line 367, SYS_HEADERS.get_or_init on the filled cell
SysCellGet(t) ==
    /\ t_pc[t] = "sys_cell"
    /\ sys_cell.state = "complete"
    /\ t_sys' = At(t_sys, t, [seen |-> TRUE, val |-> sys_cell.val])
    /\ t_pc' = At(t_pc, t, "done")
    /\ UNCHANGED <<t_call, t_idx, t_trees, t_forest, trees_cell, sys_cell,
                   tracing_runs>>
    /\ UNCHANGED NotThreads
    /\ UNCHANGED sys_roots

\* line 367, SYS_HEADERS.get_or_init on the empty cell: this thread runs the
\* initializer, which begins with get_library_dep_trees (line 368)
SysCellInit(t) ==
    /\ t_pc[t] = "sys_cell"
    /\ sys_cell.state = "incomplete"
    /\ sys_cell' = [state |-> "running", val |-> <<>>]
    /\ t_pc' = At(t_pc, t, "trees_cell")
    /\ UNCHANGED <<t_call, t_idx, t_trees, t_forest, t_sys, trees_cell,
                   tracing_runs>>
    /\ UNCHANGED NotThreads
    /\ UNCHANGED sys_roots

\* line 331, TREES.get_or_init on the filled cell
TreesCellGet(t) ==
    /\ t_pc[t] = "trees_cell"
    /\ trees_cell.state = "complete"
    /\ t_forest' = At(t_forest, t, [seen |-> TRUE, val |-> trees_cell.val])
    /\ t_pc' = At(t_pc, t, IF t_call[t] = "sys" THEN "sys_fill" ELSE "done")
    /\ UNCHANGED <<t_call, t_idx, t_trees, t_sys, trees_cell, sys_cell,
                   tracing_runs>>
    /\ UNCHANGED NotThreads
    /\ UNCHANGED sys_roots

\* line 331, TREES.get_or_init on the empty cell: this thread runs the
\* tracing initializer
TreesCellInit(t) ==
    /\ t_pc[t] = "trees_cell"
    /\ trees_cell.state = "incomplete"
    /\ trees_cell' = [state |-> "running", val |-> <<>>]
    /\ tracing_runs' = tracing_runs + 1
    /\ t_idx' = At(t_idx, t, 1)
    /\ t_trees' = At(t_trees, t, <<>>)
    /\ t_pc' = At(t_pc, t, "tracing")
    /\ UNCHANGED <<t_call, t_forest, t_sys, sys_cell>>
    /\ UNCHANGED NotThreads
    /\ UNCHANGED sys_roots

\* lines 336-349: the initializer meets the next file; a panic unwinds
\* through get_or_init, which leaves every cell this thread was filling
\* empty again
ThreadTrace(t) ==
    /\ t_pc[t] = "tracing"
    /\ t_idx[t] <= Len(Files)
    /\ IF ~IsHeaderFile(Files[t_idx[t]])
       THEN /\ t_idx' = At(t_idx, t, t_idx[t] + 1)
            /\ UNCHANGED <<t_pc, t_trees, trees_cell, sys_cell>>
       ELSE \E out \in ThreadOutcomes :
               LET r == extract_header_dependency(Files[t_idx[t]], out)
               IN  IF r.kind = "ok"
                   THEN /\ t_trees' = At(t_trees, t,
                                         IF IsInvalid(r.tree) THEN t_trees[t]
                                         ELSE Append(t_trees[t], r.tree))
                        /\ t_idx' = At(t_idx, t, t_idx[t] + 1)
                        /\ UNCHANGED <<t_pc, trees_cell, sys_cell>>
                   ELSE /\ t_pc' = At(t_pc, t, "panicked")
                        /\ trees_cell' = Incomplete
                        /\ sys_cell' = IF t_call[t] = "sys" THEN Incomplete
                                       ELSE sys_cell
                        /\ t_idx' = At(t_idx, t, 1)
                        /\ t_trees' = At(t_trees, t, <<>>)
    /\ UNCHANGED <<t_call, t_forest, t_sys, tracing_runs>>
    /\ UNCHANGED NotThreads
    /\ UNCHANGED sys_roots

\* lines 351-352: the initializer returns the forest and the cell is filled
ThreadTraceDone(t) ==
    /\ t_pc[t] = "tracing"
    /\ t_idx[t] > Len(Files)
    /\ trees_cell' = [state |-> "complete", val |-> t_trees[t]]
    /\ t_trees' = At(t_trees, t, <<>>)
    /\ t_idx' = At(t_idx, t, 1)
    /\ t_pc' = At(t_pc, t, "trees_cell")
    /\ UNCHANGED <<t_call, t_forest, t_sys, sys_cell, tracing_runs>>
    /\ UNCHANGED NotThreads
    /\ UNCHANGED sys_roots

\* lines 369-390: the initializer of SYS_HEADERS resolves the roots and
\* returns the list, and the cell is filled
SysFill(t) ==
    /\ t_pc[t] = "sys_fill"
    /\ \E header_strs \in Resolutions(t_forest[t].val) :
          /\ sys_roots' = header_strs
          /\ sys_cell' = [state |-> "complete",
                          val |-> SysHeaders(t_forest[t].val, header_strs, <<>>)]
    /\ t_pc' = At(t_pc, t, "sys_cell")
    /\ UNCHANGED <<t_call, t_idx, t_trees, t_forest, t_sys, trees_cell,
                   tracing_runs>>
    /\ UNCHANGED NotThreads

NextThreads ==
    \E t \in Threads :
       \/ ThreadCall(t)
       \/ SysCellGet(t)
       \/ SysCellInit(t)
       \/ TreesCellGet(t)
       \/ TreesCellInit(t)
       \/ ThreadTrace(t)
       \/ ThreadTraceDone(t)
       \/ SysFill(t)

SpecThreads == Init /\ [][NextThreads]_vars

(***************************************************************************)
(* The process-wide cache called with several libraries.  One thread calls *)
(* get_library_dep_trees and get_include_sys_headers, each time with a     *)
(* Deopt that names a library.  What the compiler prints for the headers   *)
(* of a library is fixed, so the forest of a library is a value; the       *)
(* build directory of every library holds the same three header files and  *)
(* is written here as the one header root, which get_clean_root removes    *)
(* from every name.                                                        *)
(***************************************************************************)
\* the libraries a Deopt can name
Libraries == {"liba", "libb", "libc"}

\* what the compiler prints for a header of a library: libc holds a
\* header whose trace has a line without a space
LibraryOutcome(lib, header) ==
    LET file == RootName(header)
        a == <<"a", ".", "h">>
        b == <<"b", ".", "h">>
    IN  IF lib = "liba"
        THEN IF file = a
             THEN [success |-> TRUE,
                   stderr |-> <<Line(1, <<".", "/", "b", ".", "h">>),
                                Line(1, Stddef)>>]
             ELSE IF file = b
             THEN [success |-> TRUE, stderr |-> <<Line(1, Stdint)>>]
             ELSE [success |-> FALSE, stderr |-> <<>>]
        ELSE IF lib = "libb"
        THEN IF file = b
             THEN [success |-> TRUE,
                   stderr |-> <<Line(1, <<".", "/", "a", ".", "h">>)>>]
             ELSE IF file = a
             THEN [success |-> TRUE, stderr |-> <<Line(1, Stdint)>>]
             ELSE [success |-> TRUE, stderr |-> <<>>]
        ELSE [success |-> TRUE, stderr |-> <<BadLine>>]

\* lines 336-352: the initializer of TREES run for a library, from file i
\* on; an Err of extract_header_dependency is unwrapped at line 345
RECURSIVE TraceFiles(_, _, _)
TraceFiles(lib, i, traced) ==
    IF i > Len(Files) THEN [kind |-> "ok", trees |-> traced]
    ELSE IF ~IsHeaderFile(Files[i]) THEN TraceFiles(lib, i + 1, traced)
    ELSE LET r == extract_header_dependency(Files[i],
                                            LibraryOutcome(lib, Files[i]))
         IN  IF r.kind # "ok" THEN [kind |-> "panic", trees |-> <<>>]
             ELSE IF IsInvalid(r.tree)
             THEN TraceFiles(lib, i + 1, traced)
             ELSE TraceFiles(lib, i + 1, Append(traced, r.tree))

LibraryTrees(lib) == TraceFiles(lib, 1, <<>>)

\* every call runs its initializer and stores what it computed
GetOrInitAlways(cell, computed) == [state |-> "complete", val |-> computed]

\* OnceCell::get_or_init on one thread: a complete cell is left alone, an
\* empty one is filled with what the initializer computed
GetOrInit(cell, computed) ==
    IF cell.state = "complete" THEN cell
    ELSE [state |-> "complete", val |-> computed]

\* the process is alive and may call again
CacheCallable ==
    /\ Len(c_log) < MaxCacheCalls
    /\ \A i \in DOMAIN c_log : c_log[i].ret.kind # "panic"

Logged(fn, lib, ret) == Append(c_log, [fn |-> fn, arg |-> lib, ret |-> ret])

\* lines 329-353: get_library_dep_trees(deopt)
CacheTrees ==
    /\ CacheCallable
    /\ \E lib \in Libraries :
          IF c_trees.state # "complete" /\ LibraryTrees(lib).kind = "panic"
          THEN /\ c_log' = Logged("trees", lib, [kind |-> "panic"])
               /\ UNCHANGED c_trees
          ELSE LET filled == GetOrInit(c_trees, LibraryTrees(lib).trees)
               IN  /\ c_trees' = filled
                   /\ c_log' = Logged("trees", lib,
                                      [kind |-> "ok", val |-> filled.val])
    /\ UNCHANGED c_sys
    /\ UNCHANGED NotCache

\* lines 364-391: get_include_sys_headers(deopt); the initializer of
\* SYS_HEADERS calls get_library_dep_trees(deopt) itself
CacheSys ==
    /\ CacheCallable
    /\ \E lib \in Libraries :
          IF c_sys.state = "complete"
          THEN /\ c_sys' = GetOrInit(c_sys, <<>>)
               /\ c_log' = Logged("sys", lib,
                                  [kind |-> "ok", val |-> c_sys'.val])
               /\ UNCHANGED c_trees
          ELSE IF c_trees.state # "complete" /\ LibraryTrees(lib).kind = "panic"
          THEN /\ c_log' = Logged("sys", lib, [kind |-> "panic"])
               /\ UNCHANGED <<c_trees, c_sys>>
          ELSE LET filled == GetOrInit(c_trees, LibraryTrees(lib).trees)
               IN  \E header_strs \in Resolutions(filled.val) :
                      LET sys_headers ==
                              SysHeaders(filled.val, header_strs, <<>>)
                      IN  /\ c_trees' = filled
                          /\ c_sys' = GetOrInit(c_sys, sys_headers)
                          /\ c_log' = Logged("sys", lib,
                                             [kind |-> "ok", val |-> c_sys'.val])
    /\ UNCHANGED NotCache

NextCache ==
    \/ CacheTrees
    \/ CacheSys

SpecCache == Init /\ [][NextCache]_vars

(***************************************************************************)
(* get_chat_response (request/openai.rs): the retry loop around one chat   *)
(* request.  The remote service answers each request with a completion or  *)
(* with an error; is_critical_err, which lies outside this source tree,    *)
(* classifies the answer: a completion is Normal, an error is NonCritical  *)
(* or Critical according to its kind.                                      *)
(***************************************************************************)
\* config::RETRY_N
RETRY_N == 5

\* what client.chat().create(request).await can yield
Responses ==
    {[ok |-> TRUE, val |-> "completion one"],
     [ok |-> TRUE, val |-> "completion two"],
     [ok |-> FALSE, val |-> "timeout"],
     [ok |-> FALSE, val |-> "rate limit"],
     [ok |-> FALSE, val |-> "invalid key"],
     [ok |-> FALSE, val |-> "bad request"]}

\* crate::is_critical_err(&response)
is_critical_err(response) ==
    IF response.ok THEN "Normal"
    ELSE IF response.val \in {"timeout", "rate limit"} THEN "NonCritical"
    ELSE "Critical"

\* the range 0..=RETRY_N
LoopContinuesInclusive(n) == n <= RETRY_N

\* line 290: for _retry in 0..config::RETRY_N
LoopContinues(n) == n < RETRY_N

\* every answer but a completion is tried again
ContinuesUnlessNormal(class) == class # "Normal"

\* lines 296-305: the arm of the match that goes on with the loop
Continues(class) == class = "NonCritical"

\* lines 286-289: the call, before the first round
ChatStart ==
    /\ chat_pc = "idle"
    /\ chat_pc' = "loop"
    /\ retry' = 0
    /\ UNCHANGED <<sent, chat_log, chat_ret>>
    /\ UNCHANGED NotChat

\* lines 290-306: one round of the loop, a request and the match on its
\* class
ChatAttempt ==
    /\ chat_pc = "loop"
    /\ LoopContinues(retry)
    /\ \E response \in Responses :
          LET class == is_critical_err(response)
          IN  /\ sent' = sent + 1
              /\ chat_log' = Append(chat_log,
                                    [response |-> response, class |-> class])
              /\ IF Continues(class)
                 THEN /\ retry' = retry + 1
                      /\ UNCHANGED <<chat_pc, chat_ret>>
                 ELSE /\ chat_pc' = "done"
                      /\ chat_ret' = IF response.ok
                                     THEN [kind |-> "ok", val |-> response.val]
                                     ELSE [kind |-> "err", val |-> response.val]
                      /\ UNCHANGED retry
    /\ UNCHANGED NotChat

\* line 307: the range is exhausted
ChatGiveUp ==
    /\ chat_pc = "loop"
    /\ ~LoopContinues(retry)
    /\ chat_pc' = "done"
    /\ chat_ret' = [kind |-> "RetryError", val |-> RETRY_N]
    /\ UNCHANGED <<retry, sent, chat_log>>
    /\ UNCHANGED NotChat

NextChat ==
    \/ ChatStart
    \/ ChatAttempt
    \/ ChatGiveUp

SpecChat == Init /\ [][NextChat]_vars

\* every awaited request is answered and the function runs on
LiveChat == SpecChat /\ WF_vars(NextChat)




(***************************************************************************)
(* Notions the properties are stated with.                                 *)
(***************************************************************************)
AH == <<"a", ".", "h">>
BH == <<"b", ".", "h">>
CH == <<"c", ".", "h">>
StddefH == <<"s", "t", "d", "d", "e", "f", ".", "h">>

\* the cached forest and its graph
Forest == TREES.val

Graph == DependencyGraph(Forest)

NoDuplicates(s) == \A i, j \in 1..Len(s) : s[i] = s[j] => i = j

\* S and everything reached from S along the edges of g
RECURSIVE Closure(_, _)
Closure(g, S) ==
    LET T == S \cup UNION {g[x] : x \in S \cap DOMAIN g}
    IN  IF T = S THEN S ELSE Closure(g, T)

\* the headers that include h, directly or through other headers
Includers(g, h) == Closure(g, g[h])

OnCycle(g, h) == h \in Includers(g, h)

\* the headers that include h and are included by h
CycleOf(g, h) == {x \in Includers(g, h) : h \in Includers(g, x)}

\* the forest of the scenario: a.h includes only the system header,
\* b.h includes a.h
ScenarioAB ==
    <<[name |-> AH, children |-> <<[name |-> Stddef, children |-> <<>>]>>],
      [name |-> BH,
       children |-> <<[name |-> AH,
                       children |-> <<[name |-> Stddef,
                                       children |-> <<>>]>>]>>]>>

(***************************************************************************)
(* Properties.                                                             *)
(***************************************************************************)
\* C1: every name returned by get_include_lib_headers is project-relative:
\* none begins with '/'.
C1_OnlyProjectRelative ==
    \A k \in DOMAIN lib_returns :
        \A i \in DOMAIN lib_returns[k] : is_a_lib_header(lib_returns[k][i])

\* C2: a project header that occurs in the tree of another traced header
\* and lies on no cycle is not returned by get_include_lib_headers, and for
\* the forest of a.h and b.h the result is exactly <<b.h>>.
C2_IncludedHeaderNotTopLevel ==
    \A k \in DOMAIN lib_returns :
        /\ \A h \in AllHeaders(Forest) :
              (/\ is_a_lib_header(h)
               /\ \E r \in Graph[h] : r # h
               /\ ~OnCycle(Graph, h))
              => h \notin Range(lib_returns[k])
        /\ Forest = ScenarioAB => lib_returns[k] = <<BH>>

\* C3: of every cycle of mutually-including headers exactly one member is
\* returned by get_include_lib_headers, and it is the smallest of the cycle.
C3_OneRepresentativePerCycle ==
    \A k \in DOMAIN lib_returns :
        \A h \in AllHeaders(Forest) :
            OnCycle(Graph, h) =>
                Range(lib_returns[k]) \cap CycleOf(Graph, h)
                    = {StrMin(CycleOf(Graph, h))}

C5_SameSetForEveryOrder ==
    \A j, k \in DOMAIN lib_returns :
        Range(lib_returns[j]) = Range(lib_returns[k])

\* C6: any two calls of get_include_lib_headers in one process return the
\* same names in the same order.
C6_SameSequenceEveryCall ==
    \A j, k \in DOMAIN lib_returns : lib_returns[j] = lib_returns[k]

\* the part of a path after its last "/include/"
AfterInclude(path) == Drop(path, RFind(path, IncludeSeg) + Len(IncludeSeg))

\* C7: the list returned by get_include_sys_headers holds no entry twice,
\* and every entry is what follows the last "/include/" in the name of a
\* node of the forest that begins with '/' and whose parent is a project
\* header.
C7_SysHeadersDistinctAndAbsolute ==
    \A k \in DOMAIN sys_returns :
        /\ NoDuplicates(sys_returns[k])
        /\ \A e \in Range(sys_returns[k]) :
              \E t \in Range(Forest) : \E n \in Range(NodesOf(t)) :
                 \E c \in Range(n.children) :
                    /\ StartsWith(c.name, <<"/">>)
                    /\ ~StartsWith(n.name, <<"/">>)
                    /\ Contains(c.name, IncludeSeg)
                    /\ AfterInclude(c.name) = e

\* C7 happens: two trees of the forest record the system header and the
\* returned list holds it once.
C7_Witness ==
    /\ sys_returns # <<>>
    /\ sys_returns[1] = <<StddefH>>
    /\ Cardinality({i \in DOMAIN Forest :
                       Stddef \in Range(get_included_sys_header(Forest[i]))}) >= 2

\* C8: a trace line without a space does not crash the resolution.
C8_MalformedLineDoesNotCrash == panic # "unwrap: no space in line"

\* C9: a header whose standalone compile failed is never returned by
\* get_include_lib_headers.
C9_FailedHeaderNeverReturned ==
    \A k \in DOMAIN lib_returns : failed \cap Range(lib_returns[k]) = {}

\* C10: every header of the forest is returned by get_include_lib_headers
\* or is included, directly or transitively, by a returned header.
C10_EveryHeaderCovered ==
    \A k \in DOMAIN lib_returns :
        \A h \in AllHeaders(Forest) :
            \/ h \in Range(lib_returns[k])
            \/ Includers(Graph, h) \cap Range(lib_returns[k]) # {}

\* the forest is one pure cycle: every node is a project header and every
\* header includes every header, itself included
PureCycle ==
    /\ AllHeaders(Forest) # {}
    /\ \A h, g \in AllHeaders(Forest) :
          is_a_lib_header(h) /\ g \in Includers(Graph, h)

\* C11: when the forest consists only of project headers that all include
\* one another, get_include_lib_headers returns exactly the one-element
\* sequence holding the smallest of their names.
C11_PureCycleYieldsSmallest ==
    \A k \in DOMAIN lib_returns :
        PureCycle => lib_returns[k] = <<StrMin(AllHeaders(Forest))>>

\* C11 happens: a call returned for a forest of two or more headers that
\* all include one another.
C11_Witness ==
    /\ lib_returns # <<>>
    /\ PureCycle
    /\ Cardinality(AllHeaders(Forest)) >= 2

\* the children of a node that are system headers recorded for a project
\* header, as entries of the system-header list
RecordedEntries(t) ==
    {AfterInclude(c.name) :
        c \in UNION {IF is_a_lib_header(n.name)
                     THEN {d \in Range(n.children) :
                              /\ ~is_a_lib_header(d.name)
                              /\ Contains(d.name, IncludeSeg)}
                     ELSE {} : n \in Range(NodesOf(t))}}

\* C13: when the initializer of get_include_sys_headers fills the list,
\* every entry comes from a tree whose root name is in the result of
\* get_independent_headers of that call.
C13_SysEntriesFromRootTrees ==
    [][(call = "sys" /\ pc = "scan" /\ pc' = "idle") =>
          \A e \in Range(SYS_HEADERS'.val) :
             \E t \in Range(TREES.val) :
                /\ t.name \in Range(result \o cycle_representatives)
                /\ e \in RecordedEntries(t)]_vars

\* C13 happens: the list was returned and a tree of the forest records a
\* system header that the list does not hold.
C13_Witness ==
    /\ sys_returns # <<>>
    /\ \E t \in Range(Forest) :
          /\ RecordedEntries(t) # {}
          /\ RecordedEntries(t) \cap Range(sys_returns[1]) = {}

\* C14: the root resolver neither panics nor fails, cyclic forests
\* included, and for the empty forest get_include_lib_headers returns the
\* empty sequence.
C14_ResolverNeverFails ==
    /\ panic # "subtract with overflow"
    /\ \A k \in DOMAIN lib_returns : Forest = <<>> => lib_returns[k] = <<>>

\* C14 happens: the resolver returned for a forest in which a header holds
\* itself.
C14_Witness ==
    /\ lib_returns # <<>>
    /\ \E h \in AllHeaders(Forest) : h \in Graph[h]

\* C16: when the resolver is about to return, every name of the result
\* that is not a cycle representative has in-degree zero in the counts of
\* step 1: no edge set of the graph holds it.
C16_TopologicalPartHasZeroInDegree ==
    (pc = "scan" /\ scan \ visited = {}) =>
        \A h \in Range(result) :
            InDegree(dependency_graph, all_headers)[h] = 0

\* C17: the candidate set of a walk of the cycle scan holds no
\* vertex that was visited when the walk began.
C17_CandidatesUnvisited ==
    [][(pc = "scan" /\ pc' = "scan" /\ scan' # scan) =>
          Range(cycle_nodes') \cap visited = {}]_vars

\* the names of all nodes of a tree
RECURSIVE TreeNames(_)
TreeNames(tree) ==
    {tree.name} \cup
        UNION {TreeNames(tree.children[i]) : i \in DOMAIN tree.children}

\* the names of the nodes of a tree below its root
NonRootNames(tree) ==
    UNION {TreeNames(tree.children[i]) : i \in DOMAIN tree.children}

\* the keys are the node names and the edge sets hold keys only
KeysClosed(g, trees) ==
    /\ DOMAIN g = UNION {TreeNames(trees[i]) : i \in DOMAIN trees}
    /\ \A h \in DOMAIN g : g[h] \subseteq DOMAIN g

\* C18: the key set of the graph built by get_independent_headers is the
\* set of all node names of the forest and every member of every edge set
\* is a key, after merging any number of the trees.
C18_GraphKeysAreNodeNames ==
    pc = "seed" =>
        /\ KeysClosed(dependency_graph, Forest)
        /\ \A n \in 0..Len(Forest) :
              KeysClosed(BuildAll(SubSeq(Forest, 1, n),
                                  [h \in AllHeaders(Forest) |-> {}]),
                         Forest)

\* C18 happens: the graph was built from two or more trees and an edge set
\* is not empty.
C18_Witness ==
    /\ pc = "seed"
    /\ Len(Forest) >= 2
    /\ \E h \in DOMAIN dependency_graph : dependency_graph[h] # {}

\* C19: the edge set of a name holds exactly the roots of the trees in
\* which the name occurs below the root, at any depth.
C19_EdgesPointToRoots ==
    pc = "seed" =>
        \A h \in DOMAIN dependency_graph :
            dependency_graph[h] =
                {Forest[i].name :
                    i \in {j \in DOMAIN Forest : h \in NonRootNames(Forest[j])}}

\* C19 happens: the graph was built from a forest in which a child of a
\* root has a child of its own.
C19_Witness ==
    /\ pc = "seed"
    /\ \E t \in Range(Forest) : \E c \in Range(t.children) :
          /\ c.children # <<>>
          /\ c.name # t.name

\* C15: root resolution terminates on every forest, cycles and self-loops
\* included: once the work queue is in use it eventually drains, and the
\* depth-first walk from every header of the graph returns a set of
\* vertices.
C15_ResolutionTerminates ==
    /\ (pc = "kahn") ~> (queue = <<>>)
    /\ [](pc = "scan" =>
            \A h \in all_headers :
                find_cycle_nodes(h, dependency_graph, {}) \subseteq all_headers)

\* C15 happens: the queue emitted a header and drained, and every walk of
\* the cycle scan returned, for a forest that holds a cycle.
C15_Witness ==
    /\ pc = "scan"
    /\ result # <<>>
    /\ scan \ visited = {}
    /\ \E g \in all_headers : OnCycle(dependency_graph, g)

\* the (depth, name) pairs of the lines of the trace that the parser
\* retains
Retained == LET kept == SelectSeq(trace_in, KeepsLine)
            IN  [i \in 1..Len(kept) |->
                    <<LinePair(kept[i])[1], TreeNodeNew(LinePair(kept[i])[2]).name>>]

\* the first retained line has depth 1 and no retained line is more than
\* one deeper than the retained line before it
WellFormed(P) ==
    /\ Len(P) > 0 => P[1][1] = 1
    /\ \A i \in 2..Len(P) : P[i][1] <= P[i - 1][1] + 1

\* the retained lines and the queried header have different names
DistinctNames(P) ==
    /\ \A i, j \in 1..Len(P) : P[i][2] = P[j][2] => i = j
    /\ \A i \in 1..Len(P) : P[i][2] # TreeNodeNew(ParseBase).name

\* all nodes of a tree
RECURSIVE TreeNodes(_)
TreeNodes(tree) ==
    {tree} \cup UNION {TreeNodes(tree.children[i]) : i \in DOMAIN tree.children}

\* the name under which line i of P is to hang: the queried header for
\* depth 1, else the nearest line before it that is one less deep
ParentName(P, i) ==
    IF P[i][1] = 1 THEN TreeNodeNew(ParseBase).name
    ELSE LET above == {j \in 1..(i - 1) : P[j][1] = P[i][1] - 1}
         IN  P[CHOOSE j \in above : \A k \in above : k <= j][2]

\* the place of a name among the children of a node, 0 if it is not there
PlaceAmong(node, name) ==
    LET at == {k \in DOMAIN node.children : node.children[k].name = name}
    IN  IF at = {} THEN 0 ELSE CHOOSE k \in at : TRUE

\* C20: for a trace whose retained lines begin at depth 1 and never go
\* more than one deeper than the line before, the parser hangs every
\* depth-1 line under the queried header and every deeper line under the
\* nearest line before it that is one less deep, children in trace order.
C20_ParserAttachesUnderNearestShallower ==
    (/\ parsed.done
     /\ parsed.res.ok
     /\ WellFormed(Retained)
     /\ DistinctNames(Retained)) =>
        LET P == Retained
            at(i) == CHOOSE n \in TreeNodes(parsed.res.tree) :
                        n.name = ParentName(P, i)
        IN  /\ \A i \in 1..Len(P) :
                  P[i][1] >= 1 =>
                      /\ \E n \in TreeNodes(parsed.res.tree) :
                            n.name = ParentName(P, i)
                      /\ PlaceAmong(at(i), P[i][2]) > 0
            /\ \A i, j \in 1..Len(P) :
                  (/\ i < j
                   /\ P[i][1] >= 1
                   /\ P[j][1] = P[i][1]
                   /\ ParentName(P, i) = ParentName(P, j))
                  => PlaceAmong(at(i), P[i][2]) < PlaceAmong(at(j), P[j][2])

\* C20 happens: a trace was parsed of which a line was dropped and the
\* retained lines have the depths 1, 1 and 2, so that the last one hangs
\* under the second.
C20_Witness ==
    /\ parsed.done
    /\ parsed.res.ok
    /\ DistinctNames(Retained)
    /\ [i \in 1..Len(Retained) |-> Retained[i][1]] = <<1, 1, 2>>
    /\ Len(trace_in) = 4
    /\ parsed.res.tree.children[2].children # <<>>

\* C12: when several threads call before the cache is filled, the tracing
\* initializer is started once only, a caller gets a forest or a list only
\* from a filled cell, and all callers get the same forest and the same
\* system-header list.
C12_InitializerRunsOnce ==
    /\ tracing_runs <= 1
    /\ \A t \in Threads :
          /\ t_forest[t].seen =>
                trees_cell.state = "complete" /\ t_forest[t].val = trees_cell.val
          /\ t_sys[t].seen =>
                sys_cell.state = "complete" /\ t_sys[t].val = sys_cell.val

\* the line names a file with one of the header extensions
NamesHeader(line) ==
    \/ EndsWith(Trim(line), ExtH)
    \/ EndsWith(Trim(line), ExtHpp)
    \/ EndsWith(Trim(line), ExtHxx)

\* the parser returned Ok with the root alone
RootOnly ==
    /\ parsed.res.ok
    /\ parsed.res.tree = [name |-> TreeNodeNew(ParseBase).name,
                          children |-> <<>>]

\* C21 as stated: for a trace of which no line names a file with a header
\* extension the parser returns Ok with the root alone.
C21_NoHeaderLineGivesRootOnly ==
    (/\ parsed.done
     /\ \A i \in DOMAIN trace_in : ~NamesHeader(trace_in[i]))
    => RootOnly

\* C21: for a trace of which every line holds a space and no line names a
\* file with a header extension the parser returns Ok with the root alone.
C21_SpacedNoHeaderLineGivesRootOnly ==
    (/\ parsed.done
     /\ \A i \in DOMAIN trace_in :
           Contains(trace_in[i], <<" ">>) /\ ~NamesHeader(trace_in[i]))
    => RootOnly

\* C21 happens: a trace of two or more lines, none naming a header and all
\* with a space, was parsed to the root alone.
C21_Witness ==
    /\ parsed.done
    /\ Len(trace_in) >= 2
    /\ \A i \in DOMAIN trace_in :
          Contains(trace_in[i], <<" ">>) /\ ~NamesHeader(trace_in[i])
    /\ RootOnly

\* C22: neither the forest being traced nor the cached forest holds the
\* sentinel tree or a tree of a header whose compile failed, and the step
\* that meets a failing header adds no tree, does not panic and goes on to
\* the next file.
C22_NoSentinelInForest ==
    /\ [](\A t \in Range(Forest) \cup Range(header_trees) :
             t.name # InvalidName /\ t.name \notin failed)
    /\ [][(pc = "trace" /\ failed' # failed /\ failed \subseteq failed') =>
             /\ pc' = "trace"
             /\ idx' = idx + 1
             /\ header_trees' = header_trees]_vars

\* C22 happens: the compile of a.h failed and the forest was cached with
\* the tree of a later header in it.
C22_Witness ==
    /\ TREES.set
    /\ AH \in failed
    /\ Forest # <<>>

\* the names of the nodes below `node` that begin with '/' and hang under
\* a node whose name does not
RECURSIVE SysUnderLib(_)
SysUnderLib(node) ==
    {node.children[i].name :
        i \in {j \in DOMAIN node.children :
                  /\ StartsWith(node.children[j].name, <<"/">>)
                  /\ ~StartsWith(node.name, <<"/">>)}}
    \cup UNION {SysUnderLib(node.children[i]) : i \in DOMAIN node.children}

\* how many nodes below `node` are such
RECURSIVE CountSysUnderLib(_)
RECURSIVE SumCounts(_, _)
CountSysUnderLib(node) == SumCounts(node, Len(node.children))

SumCounts(node, n) ==
    IF n = 0 THEN 0
    ELSE (IF /\ StartsWith(node.children[n].name, <<"/">>)
             /\ ~StartsWith(node.name, <<"/">>)
          THEN 1 ELSE 0)
         + CountSysUnderLib(node.children[n]) + SumCounts(node, n - 1)

\* C23: for every tree of the forest get_included_sys_header returns the
\* name of a node exactly when the name begins with '/' and the node's
\* parent's name does not, once for each such node.
C23_SysHeaderIffLibParent ==
    \A t \in Range(Forest) :
        /\ Range(get_included_sys_header(t)) = SysUnderLib(t)
        /\ Len(get_included_sys_header(t)) = CountSysUnderLib(t)

\* C23 happens: a tree of the cached forest holds a system header under a
\* project header and a system header under a system header.
C23_Witness ==
    \E t \in Range(Forest) : \E c \in Range(t.children) :
        /\ ~is_a_lib_header(c.name)
        /\ \E d \in Range(c.children) : ~is_a_lib_header(d.name)

\* the system headers recorded from the trees whose root is in header_strs,
\* in the order in which they are recorded
RecordedFromRoots ==
    Flatten([i \in DOMAIN trees_cell.val |->
                IF trees_cell.val[i].name \in Range(sys_roots)
                THEN get_included_sys_header(trees_cell.val[i])
                ELSE <<>>])

\* where an entry of the list is first recorded
FirstRecorded(e) ==
    LET at == {i \in DOMAIN RecordedFromRoots :
                  /\ Contains(RecordedFromRoots[i], IncludeSeg)
                  /\ AfterInclude(RecordedFromRoots[i]) = e}
    IN  IF at = {} THEN 0 ELSE CHOOSE i \in at : \A j \in at : i <= j

\* C24: every system header recorded from a tree whose root is in the
\* result of get_independent_headers is in the list of
\* get_include_sys_headers as what follows the last "/include/" of its
\* path, and the entries stand in the order in which they were first
\* recorded.
C24_RecordedSysHeadersListed ==
    sys_cell.state = "complete" =>
        /\ \A h \in Range(RecordedFromRoots) :
              /\ Contains(h, IncludeSeg)
              /\ AfterInclude(h) \in Range(sys_cell.val)
        /\ \A i, j \in DOMAIN sys_cell.val :
              i < j => FirstRecorded(sys_cell.val[i]) < FirstRecorded(sys_cell.val[j])

\* the tree with every name that begins with the header root cut down to
\* what follows the root and the separator, and every other name kept
RECURSIVE Rewritten(_)
Rewritten(tree) ==
    [name |-> IF StartsWith(tree.name, HeaderRoot)
              THEN Drop(tree.name, Len(HeaderRoot) + 1)
              ELSE tree.name,
     children |-> [i \in DOMAIN tree.children |-> Rewritten(tree.children[i])]]

\* C25: get_clean_root returns, with exactly the names that begin with the
\* header root rewritten to what follows the root and the separator, every
\* other name and the shape of the tree unchanged, and a second
\* application changes nothing.
C25_CleanRootRewritesPrefixedNames ==
    (parsed.done /\ parsed.res.ok) =>
        /\ parsed.clean.kind = "ok"
        /\ parsed.clean.tree = Rewritten(parsed.res.tree)
        /\ CleanRoot([ok |-> TRUE, tree |-> parsed.clean.tree]) = parsed.clean

\* the vertices that no cycle of the graph reaches along the edges
NotFromCycle ==
    {v \in all_headers :
        \A c \in all_headers :
            OnCycle(dependency_graph, c) => v \notin Closure(dependency_graph, {c})}

\* C26: when the Kahn loop has ended, the topological part holds exactly
\* the vertices that no cycle reaches, whatever their initial in-degree,
\* and each of them stands after every vertex that has an edge into it.
C26_TopologicalPartIsTopologicalOrder ==
    pc = "scan" =>
        /\ Range(result) = NotFromCycle
        /\ \A i \in DOMAIN result :
              \A x \in DOMAIN dependency_graph :
                  result[i] \in dependency_graph[x] =>
                      \E j \in 1..(i - 1) : result[j] = x

\* C26 happens: the Kahn loop ended having emitted a vertex whose initial
\* in-degree was two or more.
C26_Witness ==
    /\ pc = "scan"
    /\ \E h \in Range(result) :
          InDegree(dependency_graph, all_headers)[h] >= 2

\* C27: the sequence find_top_level_headers_with_cycles returns holds no
\* name twice: not within the topological part, not among the cycle
\* representatives, and not across the two parts.
C27_NoDuplicatesInResult ==
    /\ pc = "scan" =>
          /\ NoDuplicates(result)
          /\ NoDuplicates(cycle_representatives)
          /\ Range(result) \cap Range(cycle_representatives) = {}
    /\ \A k \in DOMAIN lib_returns : NoDuplicates(lib_returns[k])

\* C27 happens: the scan has ended with a topological part and a cycle
\* representative, the cycle holding two or more headers.
C27_Witness ==
    /\ pc = "scan"
    /\ scan \ visited = {}
    /\ result # <<>>
    /\ cycle_representatives # <<>>
    /\ Len(cycle_nodes) >= 2

\* the lists get_include_sys_headers can compute from the forest of a library
SysListsOf(lib) ==
    {SysHeaders(LibraryTrees(lib).trees, header_strs, <<>>) :
        header_strs \in Resolutions(LibraryTrees(lib).trees)}

\* C28: once the first call has filled the cache, every call of
\* get_library_dep_trees returns the forest of the library the first call
\* named and every call of get_include_sys_headers returns one list
\* computed from that forest, whatever library the later call names; a
\* filled cell never changes.
C28_CacheKeepsFirstLibrary ==
    /\ [](\A i \in DOMAIN c_log :
             c_log[i].ret.kind = "ok" =>
                /\ c_log[i].fn = "trees" =>
                      c_log[i].ret.val = LibraryTrees(c_log[1].arg).trees
                /\ c_log[i].fn = "sys" =>
                      c_log[i].ret.val \in SysListsOf(c_log[1].arg)
                /\ \A j \in DOMAIN c_log :
                      c_log[j].fn = c_log[i].fn /\ c_log[j].ret.kind = "ok"
                         => c_log[j].ret = c_log[i].ret)
    /\ [][/\ c_trees.state = "complete" => c_trees' = c_trees
          /\ c_sys.state = "complete" => c_sys' = c_sys]_vars

\* C28 happens: after the first call, both functions were called with
\* another library, whose own forest and list differ from the first one's.
C28_Witness ==
    /\ Len(c_log) >= 3
    /\ \E i, j \in 2..Len(c_log) :
          /\ c_log[i].fn = "trees" /\ c_log[j].fn = "sys"
          /\ c_log[i].ret.kind = "ok" /\ c_log[j].ret.kind = "ok"
          /\ c_log[i].arg # c_log[1].arg /\ c_log[j].arg # c_log[1].arg
          /\ LibraryTrees(c_log[i].arg).kind = "ok"
          /\ LibraryTrees(c_log[i].arg).trees # LibraryTrees(c_log[1].arg).trees
          /\ SysListsOf(c_log[j].arg) \cap SysListsOf(c_log[1].arg) = {}

\* C29: get_chat_response sends at most RETRY_N requests, it returns the
\* RetryError exactly when RETRY_N attempts were made and every one was
\* classified NonCritical, and the loop, once entered, comes to its end.
C29_RetryLoopBounded ==
    /\ [](sent <= RETRY_N /\ sent = Len(chat_log))
    /\ [](chat_pc = "done" =>
             (chat_ret.kind = "RetryError" <=>
                 /\ Len(chat_log) = RETRY_N
                 /\ \A i \in DOMAIN chat_log :
                       chat_log[i].class = "NonCritical"))
    /\ (chat_pc = "loop") ~> (chat_pc = "done")

\* C29 happens: the function returned the RetryError after RETRY_N
\* requests.
C29_Witness ==
    /\ chat_pc = "done"
    /\ chat_ret.kind = "RetryError"
    /\ sent = RETRY_N

\* C30: an attempt classified Normal ends the loop with Ok of that
\* completion, an attempt classified Critical ends it with Err of that
\* error, after the end no request is sent, and every attempt that was
\* followed by another request was classified NonCritical.
C30_OnlyNonCriticalRetried ==
    /\ [](\A i \in DOMAIN chat_log :
             /\ i < Len(chat_log) => chat_log[i].class = "NonCritical"
             /\ chat_log[i].class = "Normal" =>
                   /\ chat_pc = "done"
                   /\ chat_ret = [kind |-> "ok", val |-> chat_log[i].response.val]
             /\ chat_log[i].class = "Critical" =>
                   /\ chat_pc = "done"
                   /\ chat_ret = [kind |-> "err", val |-> chat_log[i].response.val])
    /\ [][chat_pc = "done" => sent' = sent /\ chat_log' = chat_log]_vars

\* C30 happens: after two NonCritical attempts a third one was classified
\* Critical and the function returned its error.
C30_Witness ==
    /\ chat_pc = "done"
    /\ Len(chat_log) = 3
    /\ chat_log[3].class = "Critical"
    /\ chat_ret.kind = "err"

(***************************************************************************)
(* find_top_level_headers_with_cycles on any graph.  The function takes a  *)
(* map from names to edge sets and a set of names; here both are drawn     *)
(* from all the maps and sets over three names, whether or not a forest    *)
(* yields them.                                                            *)
(***************************************************************************)
GraphNames == {AH, BH, CH}

\* the arguments are given and nothing was computed yet
InitGraphs ==
    /\ pc = "count"
    /\ call = "lib"
    /\ calls = 1
    /\ TREES = Unset
    /\ SYS_HEADERS = Unset
    /\ idx = 1
    /\ header_trees = <<>>
    /\ all_headers \in SUBSET GraphNames
    /\ \E keys \in SUBSET GraphNames :
          dependency_graph \in [keys -> SUBSET GraphNames]
    /\ in_degree = <<>>
    /\ queue = <<>>
    /\ result = <<>>
    /\ visited = {}
    /\ scan = {}
    /\ cycle_nodes = <<>>
    /\ cycle_representatives = <<>>
    /\ lib_returns = <<>>
    /\ sys_returns = <<>>
    /\ failed = {}
    /\ panic = "none"
    /\ ParserIdle /\ ThreadsIdle /\ CacheIdle /\ ChatIdle

\* lines 215-224: the in-degrees are counted
CountInDegree ==
    /\ pc = "count"
    /\ in_degree' = InDegree(dependency_graph, all_headers)
    /\ pc' = "seed"
    /\ UNCHANGED <<call, calls, cells, tracing, all_headers, dependency_graph,
                   queue, result, visited, scan, cycle_nodes,
                   cycle_representatives, returns, panic>>
    /\ UNCHANGED NotProcess

NextGraphs ==
    \/ CountInDegree
    \/ Seed
    \/ KahnStep
    \/ ScanStep
    \/ ReturnLib

SpecGraphs == InitGraphs /\ [][NextGraphs]_vars

\* the edge sets of emitted names that hold h: the decrements h received
Decrements(h) ==
    Cardinality({x \in Range(result) \cap DOMAIN dependency_graph :
                    h \in dependency_graph[x]})

\* C31: in the Kahn phase no in-degree counter is decremented below zero:
\* for every graph, a counter has received at most as many decrements as
\* there are edge sets that hold its vertex, each counter equals its first
\* count less the decrements, and a counter about to be decremented is at
\* least one, so the subtraction on usize does not underflow.
C31_InDegreeNeverUnderflows ==
    /\ panic # "subtract with overflow"
    /\ pc \in {"kahn", "scan"} =>
          \A h \in DOMAIN in_degree :
             /\ Decrements(h) <= InDegree(dependency_graph, all_headers)[h]
             /\ in_degree[h] =
                   InDegree(dependency_graph, all_headers)[h] - Decrements(h)
    /\ (pc = "kahn" /\ Head(queue) \notin visited
           /\ Head(queue) \in DOMAIN dependency_graph) =>
          \A d \in dependency_graph[Head(queue)] \cap DOMAIN in_degree :
             in_degree[d] >= 1

\* C31 happens: the Kahn loop ended having brought a counter that began
\* at two or more down to zero, in a graph whose keys are not the names
\* of the set.
C31_Witness ==
    /\ pc = "scan"
    /\ \E h \in DOMAIN in_degree :
          /\ InDegree(dependency_graph, all_headers)[h] >= 2
          /\ in_degree[h] = 0
    /\ all_headers # DOMAIN dependency_graph

\* the names of the nodes of a sequence of trees, each root before its
\* children and the children in their order
RECURSIVE Preorder(_)
Preorder(trees) ==
    IF trees = <<>> THEN <<>>
    ELSE <<Head(trees).name>> \o Preorder(Head(trees).children)
             \o Preorder(Tail(trees))

\* C32: for every sequence of (depth, path) pairs, also one whose depths
\* jump by more than one or start above 1, get_layer_child turns each pair
\* into one tree node and loses or duplicates none: the pre-order
\* traversal of the returned trees lists the pairs' paths, each as
\* TreeNode::new names it, in the input order.
C32_LayerChildKeepsEveryPair ==
    (parsed.done /\ parsed.res.ok) =>
        Preorder(parsed.res.tree.children) =
            [i \in 1..Len(Retained) |-> Retained[i][2]]

\* C32 happens: three pairs were turned into nodes whose depths start
\* above 1, fall, and then jump by two, one path occurring twice.
C32_Witness ==
    /\ parsed.done
    /\ parsed.res.ok
    /\ [i \in 1..Len(Retained) |-> Retained[i][1]] = <<2, 1, 3>>
    /\ Retained[1][2] = Retained[3][2]
    /\ Len(Preorder(parsed.res.tree.children)) = 3

=============================================================================
